---- MODULE Spec2Model ----
(***************************************************************************)
(* A model of steam/core/cm.py: the CMClient session engine.               *)
(*                                                                         *)
(* The client runs on gevent: greenlets are cooperative, so one action of  *)
(* the model is one run of a greenlet from a suspension point to the next. *)
(* Suspension points of cm.py are connection.connect (line 74),            *)
(* connection.get_message (line 138), wait_event (line 212), gevent.sleep  *)
(* (line 251) and Greenlet.kill (lines 93, 94, 270), which blocks the      *)
(* caller until the target has died.  Bytes are modelled as sequences of   *)
(* integers 0..255.                                                        *)
(***************************************************************************)
EXTENDS Naturals, Integers, Sequences, FiniteSets, TLC

VARIABLES
    connected,       \* self.connected
    key,             \* self.key: <<>> is None, otherwise the key bytes
    hmac_secret,     \* self.hmac_secret: <<>> is None
    steam_id,        \* self.steam_id: <<>> is None, otherwise <<id>>
    session_id,      \* self.session_id: <<>> is None, otherwise <<id>>
    recv_loop,       \* self._recv_loop: 0 is None, otherwise a greenlet
    heartbeat_loop,  \* self._heartbeat_loop: 0 is None, otherwise a greenlet
    conn,            \* self.connection: the transport
    greenlets,       \* the gevent greenlets, by slot
    nframes,         \* number of frames the server has sent so far
    nevents          \* number of calls of the application and transport faults so far

vars == <<connected, key, hmac_secret, steam_id, session_id, recv_loop,
          heartbeat_loop, conn, greenlets, nframes, nevents>>

----------------------------------------------------------------------------
(* Bounds of the model. *)

MaxGreenlets == 4
MaxFrames == 3
MaxQueue == 2
MaxEvents == 3
MaxServers == 2
MaxFramesSecured == 4

Slots == 1..MaxGreenlets

----------------------------------------------------------------------------
(* Enumerations of steam.enums, as the integers they are on the wire. *)

EMsg_Multi == 1
EMsg_ClientHeartBeat == 703
EMsg_ClientLogOnResponse == 751
EMsg_ClientLoggedOff == 757
EMsg_ChannelEncryptRequest == 1303
EMsg_ChannelEncryptResponse == 1304
EMsg_ChannelEncryptResult == 1305

EMsg == {EMsg_Multi, EMsg_ClientHeartBeat, EMsg_ClientLogOnResponse,
         EMsg_ClientLoggedOff, EMsg_ChannelEncryptRequest,
         EMsg_ChannelEncryptResponse, EMsg_ChannelEncryptResult}

EResult_OK == 1
EResult_Fail == 2
EResult_InvalidPassword == 5
EResult_ServiceUnavailable == 20
EResult_TryAnotherCM == 48

EUniverse_Public == 1
EUniverse_Beta == 2

----------------------------------------------------------------------------
(* Byte strings. *)

\* data[a:b] of Python, for 0 <= a (0-based, b exclusive, clipped to the end)
Slice(data, a, b) ==
    LET hi == IF b < Len(data) THEN b ELSE Len(data)
    IN  IF a >= hi THEN <<>> ELSE SubSeq(data, a + 1, hi)

\* data[a:]
SliceFrom(data, a) == Slice(data, a, Len(data))

\* struct.pack("<I", n) for n < 2^24
PackU32(n) == <<n % 256, (n \div 256) % 256, (n \div 65536) % 256, 0>>

\* struct.unpack_from("<I", data), for values below 2^31
UnpackU32(data) ==
    data[1] + 256 * data[2] + 65536 * data[3] + 16777216 * data[4]

\* steam.core.msg.is_proto: the top bit of the little-endian word
is_proto(data) == data[4] >= 128

\* steam.core.msg.clear_proto_bit applied to the unpacked emsg id
clear_proto_bit(data) == UnpackU32([data EXCEPT ![4] = @ % 128])

RECURSIVE Concat(_)
Concat(seqs) == IF seqs = <<>> THEN <<>> ELSE Head(seqs) \o Concat(Tail(seqs))

----------------------------------------------------------------------------
(* steam.core.msg: the wire layout of the envelopes the client reads and   *)
(* writes.  An envelope is a 4-byte little-endian emsg id, whose top bit   *)
(* is the proto flag, followed by the fields of the header and the body,   *)
(* one byte each, and then the field of variable length, if any.           *)

Header(emsg, proto) ==
    <<emsg % 256, (emsg \div 256) % 256, 0, IF proto THEN 128 ELSE 0>>

\* Number of bytes a message of this type needs to deserialize
MinLen(emsg) ==
    CASE emsg = EMsg_ChannelEncryptRequest -> 6
      [] emsg = EMsg_ChannelEncryptResult -> 5
      [] emsg = EMsg_ClientLogOnResponse -> 8
      [] emsg = EMsg_Multi -> 5
      [] OTHER -> 4

\* ChannelEncryptRequest: body.protocolVersion, body.universe, body.challenge
Body_protocolVersion(m) == m[5]
Body_universe(m) == m[6]
Body_challenge(m) == SliceFrom(m, 6)

\* ChannelEncryptResult and ClientLogOnResponse: body.eresult
Result_eresult(m) == m[5]
Logon_steamid(m) == m[5]
Logon_client_sessionid(m) == m[6]
Logon_eresult(m) == m[7]
Logon_heartbeat_seconds(m) == m[8]

\* CMsgMulti: body.size_unzipped, body.message_body
Multi_size_unzipped(m) == m[5]
Multi_message_body(m) == SliceFrom(m, 5)

\* Msg(...) / MsgProto(...).serialize() of the messages the client sends: the
\* header with the identity fields the message carries, one byte each (0 when
\* the field was not set).
Serialize(emsg, proto, steamID, sessionID) ==
    Header(emsg, proto)
      \o <<IF steamID = <<>> THEN 0 ELSE steamID[1],
           IF sessionID = <<>> THEN 0 ELSE sessionID[1]>>

----------------------------------------------------------------------------
(* zipfile: an archive with the one stored member 'z'. *)

ZipMagic == <<80, 75>>

Zip(data) == ZipMagic \o data

IsZip(blob) == Len(blob) >= 2 /\ SubSeq(blob, 1, 2) = ZipMagic

\* zipfile.ZipFile(StringIO(blob)).read('z')
ZipRead(blob) == SliceFrom(blob, 2)

----------------------------------------------------------------------------
(* steam.core.crypto. *)

KeyLen == 32
HmacLen == 16

RECURSIVE ByteSum(_)
ByteSum(data) ==
    IF data = <<>> THEN 0 ELSE (Head(data) + ByteSum(Tail(data))) % 256

\* crypto.generate_session_key(challenge): the session key of the handshake
\* that answers this challenge
generate_session_key(challenge) ==
    SubSeq([i \in 1..KeyLen |->
               (11 * i + 3 * ByteSum(challenge) + Len(challenge)) % 256],
           1, KeyLen)

\* crypto.symmetric_encrypt(data, key)
symmetric_encrypt(data, k) ==
    SubSeq([i \in 1..Len(data) |->
               (data[i] + k[((i - 1) % KeyLen) + 1]) % 256],
           1, Len(data))

\* crypto.symmetric_decrypt(data, key)
symmetric_decrypt(data, k) ==
    SubSeq([i \in 1..Len(data) |->
               (data[i] + 256 - k[((i - 1) % KeyLen) + 1]) % 256],
           1, Len(data))

\* The integrity tag of the authenticated variant
Tag(data, secret) == (ByteSum(data) + ByteSum(secret) + 1) % 256

\* crypto.symmetric_encrypt_HMAC(data, key, hmac_secret)
symmetric_encrypt_HMAC(data, k, secret) ==
    <<Tag(data, secret)>> \o symmetric_encrypt(data, k)

\* crypto.symmetric_decrypt_HMAC raises RuntimeError unless this holds
HMAC_verifies(data, k, secret) ==
    /\ Len(data) >= 1
    /\ data[1] = Tag(symmetric_decrypt(Tail(data), k), secret)

\* crypto.symmetric_decrypt_HMAC(data, key, hmac_secret), when it verifies
symmetric_decrypt_HMAC(data, k, secret) == symmetric_decrypt(Tail(data), k)

----------------------------------------------------------------------------
(* gevent: greenlets.  A slot holds a greenlet; pc is the suspension point *)
(* the greenlet is blocked at, "dead" when it has finished or was killed.  *)
(* The other fields are the local variables that are live across the       *)
(* greenlet's suspension points:                                           *)
(*   target     the greenlet whose death a blocking kill() waits for       *)
(*   stk        the buffers the active _handle_multi frames still have to  *)
(*              unpack, innermost first                                    *)
(*   lkey, chal the locals key and challenge of _handle_encrypt_request    *)
(*   res        the eresult of the message wait_event returned             *)
(*   reconnect  the argument of disconnect                                 *)
(*   dconn      whether the session was connected when disconnect began    *)
(*   interval   out_of_game_heartbeat_seconds of the logon response        *)
(*   message    the steamID and sessionID the message object of _heartbeat *)
(*              carries                                                    *)

DeadG ==
    [kind |-> "none", pc |-> "dead", target |-> 0, stk |-> <<>>,
     lkey |-> <<>>, chal |-> <<>>, res |-> 0, reconnect |-> FALSE,
     dconn |-> FALSE, interval |-> 0,
     message |-> [steamID |-> <<>>, sessionID |-> <<>>]]

KillPcs == {"disc_kill_hb", "disc_kill_recv", "logon_kill_hb"}

\* What a step puts out: the messages it hands to the transport, the
\* notifications and the envelopes it emits, the greenlets it spawns, how a
\* disconnect() call that ends in it ends ("returned", "killed" or "error")
\* and whether the session was connected when that call began, whether its
\* greenlet ends with an exception, and the endpoint connect() chose.
Out0 ==
    [sent |-> <<>>, emits |-> <<>>, disp |-> <<>>, spawned |-> <<>>,
     disc |-> "none", dconn |-> FALSE, raised |-> FALSE, addr |-> 0]

\* The state a step starts from, as a record the operators below thread
\* through the code they model.
Begin ==
    [connected |-> connected, key |-> key, hmac_secret |-> hmac_secret,
     steam_id |-> steam_id, session_id |-> session_id,
     recv_loop |-> recv_loop, heartbeat_loop |-> heartbeat_loop,
     conn |-> conn, G |-> greenlets, out |-> Out0,
     ok |-> TRUE, new |-> 0]

\* The state a step ends in.  A step that needs more greenlets than the model
\* has slots for is not taken.
Commit(s) ==
    /\ s.ok
    /\ connected' = s.connected
    /\ key' = s.key
    /\ hmac_secret' = s.hmac_secret
    /\ steam_id' = s.steam_id
    /\ session_id' = s.session_id
    /\ recv_loop' = s.recv_loop
    /\ heartbeat_loop' = s.heartbeat_loop
    /\ conn' = s.conn
    /\ greenlets' = s.G

\* bool(greenlet): started and not yet dead
Alive(s, i) == i # 0 /\ s.G[i].pc # "dead"

Referenced(s, i) ==
    \/ i = s.recv_loop
    \/ i = s.heartbeat_loop
    \/ \E j \in Slots : s.G[j].pc # "dead" /\ s.G[j].target = i

FreeSlots(s) == {i \in Slots : s.G[i].pc = "dead" /\ ~Referenced(s, i)}

\* gevent.spawn: the new greenlet is in s.new
spawn(s, kind, pc, reconnect, interval) ==
    IF ~s.ok \/ FreeSlots(s) = {}
    THEN [s EXCEPT !.ok = FALSE]
    ELSE LET i == CHOOSE x \in FreeSlots(s) : \A y \in FreeSlots(s) : x <= y
         IN  [s EXCEPT !.G[i] = [DeadG EXCEPT !.kind = kind, !.pc = pc,
                                              !.reconnect = reconnect,
                                              !.interval = interval],
                       !.out.spawned = Append(@, kind),
                       !.new = i]

\* The greenlet g ends: it returned, raised or was killed.
finish(s, g) == [s EXCEPT !.G[g] = DeadG]

\* Greenlet.kill() takes effect on t: GreenletExit is raised in t at its
\* suspension point.  A kill that t itself was blocked in stays scheduled and
\* takes effect too.
RECURSIVE kill(_, _, _)
kill(s, t, depth) ==
    IF t = 0 \/ depth = 0 THEN s
    ELSE IF s.G[t].pc \in {"dead", "run"} THEN s
    ELSE LET gt == s.G[t]
             s1 == finish(s, t)
         IN  IF gt.pc \in KillPcs THEN kill(s1, gt.target, depth - 1) ELSE s1

\* The greenlet g blocks at pc with these locals live.
block(s, g, pc, locals) ==
    [s EXCEPT !.G[g] = [kind |-> @.kind, pc |-> pc,
                        target |-> locals.target, stk |-> locals.stk,
                        lkey |-> locals.lkey, chal |-> locals.chal,
                        res |-> 0, reconnect |-> locals.reconnect,
                        dconn |-> locals.dconn, interval |-> locals.interval,
                        message |-> DeadG.message]]

Locals0 ==
    [target |-> 0, stk |-> <<>>, lkey |-> <<>>, chal |-> <<>>,
     reconnect |-> FALSE, dconn |-> FALSE, interval |-> 0]

----------------------------------------------------------------------------
(* steam.util.events.EventEmitter and steam.core.connection.TCPConnection. *)

\* emit(name) of one of the notifications 'connected', 'channel_secured',
\* 'disconnected': the client registers no handler for them
emit(s, name) == [s EXCEPT !.out.emits = Append(@, name)]

\* connection.disconnect()
connection_disconnect(c) == [c EXCEPT !.up = FALSE]

\* connection.put_message(data), of a message of type emsg
put_message(s, emsg, data) ==
    [s EXCEPT !.out.sent = Append(@, [emsg |-> emsg, data |-> data])]

\* connection.connect(server_addr), which succeeds or not
connection_connect(c, server_addr, success) ==
    IF success THEN [c EXCEPT !.up = TRUE] ELSE c

\* emit(EMsg.ChannelEncryptResult, msg) to the callers blocked in
\* wait_event(EMsg.ChannelEncryptResult): each is made runnable and will
\* return msg
wake_waiters(s, m) ==
    [s EXCEPT !.G = [i \in Slots |->
        IF s.G[i].pc = "wait_result"
        THEN [s.G[i] EXCEPT !.pc = "woken", !.res = Result_eresult(m)]
        ELSE s.G[i]]]

----------------------------------------------------------------------------
(* CMClient. *)

\* An exception leaves the greenlet g: it ends.
raise(s, g) == [finish(s, g) EXCEPT !.out.raised = TRUE]

init_attributes(s) ==
    [s EXCEPT !.connected = FALSE,
              !.key = <<>>, !.hmac_secret = <<>>,
              !.steam_id = <<>>, !.session_id = <<>>,
              !.recv_loop = 0, !.heartbeat_loop = 0]

\* Msg(emsg) and MsgProto(emsg): a new message object, no identity set
Message(emsg, proto) ==
    [emsg |-> emsg, proto |-> proto, steamID |-> <<>>, sessionID |-> <<>>]

\* send_message, lines 115-118: what it does to the message object it is
\* given.  A session_id of 0 is false in Python.
set_identity(s, message) ==
    [message EXCEPT
        !.steamID = IF s.steam_id # <<>> THEN s.steam_id ELSE @,
        !.sessionID = IF s.session_id # <<>> /\ s.session_id[1] # 0
                      THEN s.session_id ELSE @]

send_message(s, message) ==
    LET m == set_identity(s, message)
        data == Serialize(m.emsg, m.proto, m.steamID, m.sessionID)
        wire == IF s.key # <<>>
                THEN IF s.hmac_secret # <<>>
                     THEN symmetric_encrypt_HMAC(data, s.key, s.hmac_secret)
                     ELSE symmetric_encrypt(data, s.key)
                ELSE data
    IN  put_message(s, m.emsg, wire)

RECURSIVE parse_message(_, _, _, _)
RECURSIVE handle_multi_loop(_, _, _)

\* A variant of the loop that leaves it after the first sub-envelope
handle_multi_loop_once(s, g, stk) ==
    IF stk = <<>> THEN block(s, g, "get", Locals0)
    ELSE LET data == Head(stk)
         IN  IF Len(data) = 0 THEN handle_multi_loop(s, g, Tail(stk))
             ELSE IF Len(data) < 4 THEN raise(s, g)
             ELSE LET size == UnpackU32(data)
                  IN  parse_message(s, g, Slice(data, 4, 4 + size), Tail(stk))

\* The while loop of _handle_multi over the buffers of the active
\* _handle_multi frames; with none left, control is back in the loop of
\* _recv_messages, at get_message.
handle_multi_loop(s, g, stk) ==
    IF stk = <<>> THEN block(s, g, "get", Locals0)
    ELSE LET data == Head(stk)
         IN  IF Len(data) = 0 THEN handle_multi_loop(s, g, Tail(stk))
             ELSE IF Len(data) < 4 THEN raise(s, g)
             ELSE LET size == UnpackU32(data)
                  IN  parse_message(s, g, Slice(data, 4, 4 + size),
                                    <<SliceFrom(data, 4 + size)>> \o Tail(stk))

\* A handler or disconnect() returns: a disconnect greenlet ends, a receive
\* greenlet goes on where it was.
return(s, g, stk) ==
    IF s.G[g].kind = "disconnect" THEN finish(s, g)
    ELSE handle_multi_loop(s, g, stk)

\* disconnect, lines 96-97
disconnect_reset(s, g, stk) ==
    LET s1 == emit(init_attributes(s), "disconnected")
        s2 == [s1 EXCEPT !.out.disc = "returned", !.out.dconn = s.G[g].dconn]
    IN  return(s2, g, stk)

\* disconnect, line 94
disconnect_kill_recv(s, g, stk) ==
    LET ended == [s EXCEPT !.out.dconn = s.G[g].dconn]
    IN  IF s.recv_loop = 0
        THEN raise([ended EXCEPT !.out.disc = "error"], g)
        ELSE IF s.recv_loop = g
        THEN finish([ended EXCEPT !.out.disc = "killed"], g)
        ELSE IF Alive(s, s.recv_loop)
        THEN block(s, g, "disc_kill_recv",
                   [Locals0 EXCEPT !.target = s.recv_loop, !.stk = stk,
                                   !.reconnect = s.G[g].reconnect,
                                   !.dconn = s.G[g].dconn])
        ELSE disconnect_reset(s, g, stk)

\* disconnect, lines 87-93
disconnect(s, g, reconnect, stk) ==
    LET s1 == IF reconnect THEN spawn(s, "connect", "attempt", FALSE, 0) ELSE s
        s2 == [s1 EXCEPT !.conn = connection_disconnect(@),
                         !.G[g].reconnect = reconnect,
                         !.G[g].dconn = s.connected]
    IN  IF ~s1.ok THEN s1
        ELSE IF Alive(s2, s2.heartbeat_loop)
        THEN block(s2, g, "disc_kill_hb",
                   [Locals0 EXCEPT !.target = s2.heartbeat_loop, !.stk = stk,
                                   !.reconnect = reconnect,
                                   !.dconn = s.connected])
        ELSE disconnect_kill_recv(s2, g, stk)

\* gevent.spawn(self.disconnect); return
spawn_disconnect(s, g, stk) ==
    LET s1 == spawn(s, "disconnect", "start", FALSE, 0)
    IN  IF ~s1.ok THEN s1 ELSE return(s1, g, stk)

\* A variant of _handle_encrypt_request that does not look at the universe
handle_encrypt_request_any_universe(s, g, m, stk) ==
    IF Body_protocolVersion(m) # 1
    THEN spawn_disconnect(s, g, stk)
    ELSE LET challenge == Body_challenge(m)
             k == generate_session_key(challenge)
             s1 == send_message(s, Message(EMsg_ChannelEncryptResponse, FALSE))
         IN  block(s1, g, "wait_result",
                   [Locals0 EXCEPT !.stk = stk, !.lkey = k, !.chal = challenge])

\* _handle_encrypt_request, lines 191-212
handle_encrypt_request(s, g, m, stk) ==
    IF Body_protocolVersion(m) # 1 \/ Body_universe(m) # EUniverse_Public
    THEN spawn_disconnect(s, g, stk)
    ELSE LET challenge == Body_challenge(m)
             k == generate_session_key(challenge)
             s1 == send_message(s, Message(EMsg_ChannelEncryptResponse, FALSE))
         IN  block(s1, g, "wait_result",
                   [Locals0 EXCEPT !.stk = stk, !.lkey = k, !.chal = challenge])

\* A variant of _handle_encrypt_request that commits the key whatever the
\* eresult
handle_encrypt_result_any_eresult(s, g) ==
    LET gr == s.G[g]
        s1 == [s EXCEPT !.key = gr.lkey]
        s2 == IF gr.chal # <<>>
              THEN [s1 EXCEPT !.hmac_secret = Slice(gr.lkey, 0, HmacLen)]
              ELSE s1
    IN  return(emit(s2, "channel_secured"), g, gr.stk)

\* _handle_encrypt_request, lines 214-225
handle_encrypt_result(s, g) ==
    LET gr == s.G[g]
    IN  IF gr.res # EResult_OK
        THEN spawn_disconnect(s, g, gr.stk)
        ELSE LET s1 == [s EXCEPT !.key = gr.lkey]
                 s2 == IF gr.chal # <<>>
                       THEN [s1 EXCEPT !.hmac_secret = Slice(gr.lkey, 0, HmacLen)]
                       ELSE s1
             IN  return(emit(s2, "channel_secured"), g, gr.stk)

\* _handle_multi, lines 227-240
handle_multi(s, g, m, stk) ==
    IF Multi_size_unzipped(m) # 0
    THEN IF ~IsZip(Multi_message_body(m)) THEN raise(s, g)
         ELSE LET data == ZipRead(Multi_message_body(m))
              IN  IF Len(data) # Multi_size_unzipped(m)
                  THEN spawn_disconnect(s, g, stk)
                  ELSE handle_multi_loop(s, g, <<data>> \o stk)
    ELSE handle_multi_loop(s, g, <<Multi_message_body(m)>> \o stk)

\* _handle_logon, lines 272-275
start_heartbeat(s, g, interval, stk) ==
    LET s1 == spawn(s, "heartbeat", "sleep", FALSE, interval)
    IN  IF ~s1.ok THEN s1
        ELSE return([s1 EXCEPT !.heartbeat_loop = s1.new], g, stk)

\* A variant of _handle_logon that reconnects on TryAnotherCM only
handle_logon_one_code(s, g, m, stk) ==
    LET result == Logon_eresult(m)
    IN  IF result = EResult_TryAnotherCM
        THEN disconnect(s, g, TRUE, stk)
        ELSE IF result = EResult_OK
        THEN LET s1 == [s EXCEPT !.steam_id = <<Logon_steamid(m)>>,
                                 !.session_id = <<Logon_client_sessionid(m)>>]
                 interval == Logon_heartbeat_seconds(m)
             IN  IF Alive(s1, s1.heartbeat_loop)
                 THEN block(s1, g, "logon_kill_hb",
                            [Locals0 EXCEPT !.target = s1.heartbeat_loop,
                                            !.stk = stk,
                                            !.interval = interval])
                 ELSE start_heartbeat(s1, g, interval, stk)
        ELSE return(s, g, stk)

\* _handle_logon, lines 254-270
handle_logon(s, g, m, stk) ==
    LET result == Logon_eresult(m)
    IN  IF result \in {EResult_TryAnotherCM, EResult_ServiceUnavailable}
        THEN disconnect(s, g, TRUE, stk)
        ELSE IF result = EResult_OK
        THEN LET s1 == [s EXCEPT !.steam_id = <<Logon_steamid(m)>>,
                                 !.session_id = <<Logon_client_sessionid(m)>>]
                 interval == Logon_heartbeat_seconds(m)
             IN  IF Alive(s1, s1.heartbeat_loop)
                 THEN block(s1, g, "logon_kill_hb",
                            [Locals0 EXCEPT !.target = s1.heartbeat_loop,
                                            !.stk = stk,
                                            !.interval = interval])
                 ELSE start_heartbeat(s1, g, interval, stk)
        ELSE return(s, g, stk)

\* A variant of _parse_message that does not look at connected
parse_message_any_session(s, g, message, stk) ==
    IF Len(message) < 4 THEN raise(s, g)
    ELSE LET emsg == clear_proto_bit(message)
         IN  IF emsg \notin EMsg THEN raise(s, g)
             ELSE IF Len(message) < MinLen(emsg) THEN raise(s, g)
             ELSE LET s1 == [s EXCEPT !.out.disp = Append(@, message)]
                  IN  CASE emsg = EMsg_ChannelEncryptRequest ->
                               handle_encrypt_request(s1, g, message, stk)
                        [] emsg = EMsg_Multi ->
                               handle_multi(s1, g, message, stk)
                        [] emsg = EMsg_ClientLogOnResponse ->
                               handle_logon(s1, g, message, stk)
                        [] emsg = EMsg_ChannelEncryptResult ->
                               return(wake_waiters(s1, message), g, stk)
                        [] OTHER -> return(s1, g, stk)

\* _parse_message; emit(emsg, msg) calls the handlers of emsg in place
parse_message(s, g, message, stk) ==
    IF ~s.connected THEN return(s, g, stk)
    ELSE IF Len(message) < 4 THEN raise(s, g)
    ELSE LET emsg == clear_proto_bit(message)
         IN  IF emsg \notin EMsg THEN raise(s, g)
             ELSE IF Len(message) < MinLen(emsg) THEN raise(s, g)
             ELSE LET s1 == [s EXCEPT !.out.disp = Append(@, message)]
                  IN  CASE emsg = EMsg_ChannelEncryptRequest ->
                               handle_encrypt_request(s1, g, message, stk)
                        [] emsg = EMsg_Multi ->
                               handle_multi(s1, g, message, stk)
                        [] emsg = EMsg_ClientLogOnResponse ->
                               handle_logon(s1, g, message, stk)
                        [] emsg = EMsg_ChannelEncryptResult ->
                               return(wake_waiters(s1, message), g, stk)
                        [] OTHER -> return(s1, g, stk)

\* A variant of _recv_messages that does not look at the integrity tag
recv_messages_unverified(s, g) ==
    LET message == Head(s.conn.inq)
        s0 == [s EXCEPT !.conn.inq = Tail(@)]
    IN  IF s0.key # <<>>
        THEN IF s0.hmac_secret # <<>>
             THEN parse_message(s0, g,
                      symmetric_decrypt_HMAC(message, s0.key, s0.hmac_secret),
                      <<>>)
             ELSE parse_message(s0, g, symmetric_decrypt(message, s0.key), <<>>)
        ELSE parse_message(s0, g, message, <<>>)

\* _recv_messages, lines 138-156, when get_message returns a message
recv_messages(s, g) ==
    LET message == Head(s.conn.inq)
        s0 == [s EXCEPT !.conn.inq = Tail(@)]
    IN  IF s0.key # <<>>
        THEN IF s0.hmac_secret # <<>>
             THEN IF HMAC_verifies(message, s0.key, s0.hmac_secret)
                  THEN parse_message(s0, g,
                           symmetric_decrypt_HMAC(message, s0.key, s0.hmac_secret),
                           <<>>)
                  ELSE LET s1 == spawn(s0, "disconnect", "start", FALSE, 0)
                       IN  IF ~s1.ok THEN s1 ELSE finish(s1, g)
             ELSE parse_message(s0, g, symmetric_decrypt(message, s0.key), <<>>)
        ELSE parse_message(s0, g, message, <<>>)

\* _recv_messages, lines 139-143, when get_message raises queue.Empty
recv_timeout(s, g) ==
    IF ~s.conn.up
    THEN LET s1 == spawn(s, "disconnect", "start", FALSE, 0)
         IN  IF ~s1.ok THEN s1 ELSE finish(s1, g)
    ELSE s

\* A variant of connect that leaves its loop after the first attempt
connect_one_attempt(s, g, server_addr, success) ==
    LET s1 == [s EXCEPT !.conn = connection_connect(@, server_addr, success),
                        !.out.addr = server_addr]
        s2 == emit([s1 EXCEPT !.connected = TRUE], "connected")
        s3 == spawn(s2, "recv", "get", FALSE, 0)
    IN  IF ~s3.ok THEN s3
        ELSE finish([s3 EXCEPT !.recv_loop = s3.new], g)

\* connect: one turn of the loop of lines 71-80, and lines 82-84 after it
connect(s, g, server_addr, success) ==
    LET s1 == [s EXCEPT !.conn = connection_connect(@, server_addr, success),
                        !.out.addr = server_addr]
    IN  IF ~s1.conn.up THEN s1
        ELSE LET s2 == emit([s1 EXCEPT !.connected = TRUE], "connected")
                 s3 == spawn(s2, "recv", "get", FALSE, 0)
             IN  IF ~s3.ok THEN s3
                 ELSE finish([s3 EXCEPT !.recv_loop = s3.new], g)

\* _heartbeat, line 252, with the message object of line 248, which every
\* turn of the loop sends again
heartbeat(s, g) ==
    LET message == [Message(EMsg_ClientHeartBeat, TRUE) EXCEPT
                       !.steamID = s.G[g].message.steamID,
                       !.sessionID = s.G[g].message.sessionID]
        m == set_identity(s, message)
    IN  send_message([s EXCEPT !.G[g].message =
                         [steamID |-> m.steamID, sessionID |-> m.sessionID]],
                     message)

----------------------------------------------------------------------------
(* The frames the server sends. *)

EncryptRequest(version, universe, challenge) ==
    Header(EMsg_ChannelEncryptRequest, FALSE) \o <<version, universe>> \o challenge

EncryptResult(eresult) == Header(EMsg_ChannelEncryptResult, FALSE) \o <<eresult>>

LogOnResponse(eresult) ==
    Header(EMsg_ClientLogOnResponse, TRUE) \o <<76, 9, eresult, 30>>

LoggedOff == Header(EMsg_ClientLoggedOff, TRUE)

\* The sub-envelopes of a Multi, each behind its 4-byte length
RECURSIVE Pack(_)
Pack(subs) ==
    IF subs = <<>> THEN <<>>
    ELSE PackU32(Len(Head(subs))) \o Head(subs) \o Pack(Tail(subs))

Multi(subs) == Header(EMsg_Multi, TRUE) \o <<0>> \o Pack(subs)

\* A compressed Multi that declares `extra` bytes more than it holds
MultiZip(subs, extra) ==
    Header(EMsg_Multi, TRUE) \o <<Len(Pack(subs)) + extra>> \o Zip(Pack(subs))

\* The frames every run of the model draws from
CoreFrames ==
    {EncryptRequest(1, EUniverse_Public, <<7>>),
     EncryptResult(EResult_OK),
     LogOnResponse(EResult_OK)}

HandshakeFrames ==
    CoreFrames \cup
    {EncryptRequest(1, EUniverse_Public, <<>>),
     EncryptRequest(2, EUniverse_Public, <<7>>),
     EncryptRequest(1, EUniverse_Beta, <<7>>),
     EncryptResult(EResult_Fail)}

LogonFrames ==
    CoreFrames \cup
    {LogOnResponse(EResult_TryAnotherCM),
     LogOnResponse(EResult_ServiceUnavailable),
     LogOnResponse(EResult_InvalidPassword),
     LoggedOff}

\* The Multi frames whose declared size is right, with what they carry
MultiCases ==
    {[frame |-> Multi(subs), subs |-> subs] :
        subs \in {<<>>,
                  <<LogOnResponse(EResult_OK), LoggedOff>>,
                  <<LogOnResponse(EResult_TryAnotherCM), LoggedOff>>}}
    \cup
    {[frame |-> MultiZip(subs, 0), subs |-> subs] :
        subs \in {<<LoggedOff, LogOnResponse(EResult_InvalidPassword)>>}}

MultiFrames ==
    CoreFrames \cup
    {LoggedOff,
     MultiZip(<<LoggedOff>>, 1),
     Multi(<<MultiZip(<<LoggedOff>>, 1), LoggedOff>>)} \cup
    {c.frame : c \in MultiCases}

\* A logon-response cut short: its type is known, its body does not
\* deserialize
TruncatedLogOn == Header(EMsg_ClientLogOnResponse, TRUE) \o <<76, 9>>

MalformedFrames ==
    CoreFrames \cup
    {LoggedOff,
     TruncatedLogOn,
     Multi(<<TruncatedLogOn, LoggedOff>>)}

\* What the server puts on the wire for a frame: the frame as it is, or
\* encrypted for the session key, or encrypted with a tag that does not verify.
WireForms(f) ==
    {f} \cup
    (IF key = <<>> THEN {}
     ELSE IF hmac_secret = <<>> THEN {symmetric_encrypt(f, key)}
     ELSE {symmetric_encrypt_HMAC(f, key, hmac_secret),
           <<(Tag(f, hmac_secret) + 1) % 256>> \o symmetric_encrypt(f, key)})

----------------------------------------------------------------------------
(* The state machine. *)

Init ==
    /\ connected = FALSE
    /\ key = <<>>
    /\ hmac_secret = <<>>
    /\ steam_id = <<>>
    /\ session_id = <<>>
    /\ recv_loop = 0
    /\ heartbeat_loop = 0
    /\ conn = [up |-> FALSE, inq |-> <<>>]
    /\ greenlets = [i \in Slots |-> DeadG]
    /\ nframes = 0
    /\ nevents = 0

Step(s) == Commit(s) /\ UNCHANGED <<nframes, nevents>>

Call(s) ==
    /\ nevents < MaxEvents
    /\ Commit(s)
    /\ nevents' = nevents + 1
    /\ UNCHANGED nframes

\* The steps of the greenlets, as the state and the outputs each ends with.

\* connect() comes back from connection.connect
AfterConnect(g, server_addr, success) == connect(Begin, g, server_addr, success)

\* a greenlet that is to run disconnect() starts
AfterDisconnectStart(g) == disconnect(Begin, g, greenlets[g].reconnect, <<>>)

\* a blocking kill() returns: the target is dead and the caller goes on
AfterKill(g) ==
    LET gr == greenlets[g]
        s1 == kill([Begin EXCEPT !.G[g].pc = "run", !.G[g].target = 0],
                   gr.target, MaxGreenlets)
    IN  CASE gr.pc = "disc_kill_hb" -> disconnect_kill_recv(s1, g, gr.stk)
          [] gr.pc = "disc_kill_recv" -> disconnect_reset(s1, g, gr.stk)
          [] gr.pc = "logon_kill_hb" ->
                 start_heartbeat(s1, g, gr.interval, gr.stk)

\* get_message returns the next frame to a receive greenlet
AfterRecv(g) == recv_messages(Begin, g)

\* get_message times out
AfterTimeout(g) == recv_timeout(Begin, g)

\* wait_event returns the encrypt-result to _handle_encrypt_request
AfterWait(g) == handle_encrypt_result(Begin, g)

\* gevent.sleep returns in _heartbeat
AfterSleep(g) == heartbeat(Begin, g)

\* The application calls connect() on a client that is not connected.
UserConnect ==
    /\ ~connected
    /\ \A i \in Slots : greenlets[i].kind # "connect"
    /\ Call(spawn(Begin, "connect", "attempt", FALSE, 0))

\* The application calls disconnect().
UserDisconnect ==
    \E reconnect \in BOOLEAN :
        Call(spawn(Begin, "disconnect", "start", reconnect, 0))

ConnectAttempt(g) ==
    /\ greenlets[g].pc = "attempt"
    /\ \E server_addr \in 1..MaxServers, success \in BOOLEAN :
          Step(AfterConnect(g, server_addr, success))

DisconnectStart(g) ==
    /\ greenlets[g].pc = "start"
    /\ Step(AfterDisconnectStart(g))

KillReturns(g) ==
    /\ greenlets[g].pc \in KillPcs
    /\ Step(AfterKill(g))

RecvMessage(g) ==
    /\ greenlets[g].pc = "get"
    /\ conn.inq # <<>>
    /\ Step(AfterRecv(g))

RecvTimeout(g) ==
    /\ greenlets[g].pc = "get"
    /\ conn.inq = <<>>
    /\ Step(AfterTimeout(g))

WaitReturns(g) ==
    /\ greenlets[g].pc = "woken"
    /\ Step(AfterWait(g))

HeartbeatTick(g) ==
    /\ greenlets[g].pc = "sleep"
    /\ Step(AfterSleep(g))

\* The server sends a frame, which the transport queues; n bounds the frames
\* of a run.
ServerSendUpTo(frames, n) ==
    /\ conn.up
    /\ nframes < n
    /\ Len(conn.inq) < MaxQueue
    /\ \E f \in frames : \E w \in WireForms(f) :
          /\ conn' = [conn EXCEPT !.inq = Append(@, w)]
          /\ nframes' = nframes + 1
          /\ UNCHANGED <<connected, key, hmac_secret, steam_id, session_id,
                         recv_loop, heartbeat_loop, greenlets, nevents>>

\* The transport loses its connection.
TransportDrop ==
    /\ conn.up
    /\ nevents < MaxEvents
    /\ nevents' = nevents + 1
    /\ conn' = [conn EXCEPT !.up = FALSE]
    /\ UNCHANGED <<connected, key, hmac_secret, steam_id, session_id,
                   recv_loop, heartbeat_loop, greenlets, nframes>>

ServerSend(frames) == ServerSendUpTo(frames, MaxFrames)

GreenletStep ==
    \/ \E g \in Slots : ConnectAttempt(g)
    \/ \E g \in Slots : DisconnectStart(g)
    \/ \E g \in Slots : KillReturns(g)
    \/ \E g \in Slots : RecvMessage(g)
    \/ \E g \in Slots : RecvTimeout(g)
    \/ \E g \in Slots : WaitReturns(g)
    \/ \E g \in Slots : HeartbeatTick(g)

\* A session that lasts one frame longer
NextSecured(frames) ==
    \/ UserConnect
    \/ UserDisconnect
    \/ ServerSendUpTo(frames, MaxFramesSecured)
    \/ TransportDrop
    \/ GreenletStep

Next(frames) ==
    \/ UserConnect
    \/ UserDisconnect
    \/ ServerSend(frames)
    \/ TransportDrop
    \/ \E g \in Slots : ConnectAttempt(g)
    \/ \E g \in Slots : DisconnectStart(g)
    \/ \E g \in Slots : KillReturns(g)
    \/ \E g \in Slots : RecvMessage(g)
    \/ \E g \in Slots : RecvTimeout(g)
    \/ \E g \in Slots : WaitReturns(g)
    \/ \E g \in Slots : HeartbeatTick(g)

\* The session with the frames of the handshake, of the logon, of Multi
Spec == Init /\ [][Next(HandshakeFrames)]_vars
SpecLogon == Init /\ [][Next(LogonFrames)]_vars
SpecMulti == Init /\ [][Next(MultiFrames)]_vars
SpecMalformed == Init /\ [][Next(MalformedFrames)]_vars
SpecSecured == Init /\ [][NextSecured(CoreFrames)]_vars

----------------------------------------------------------------------------
(* What the claims are stated over. *)

\* The results of the steps greenlet g can take in the current state: the
\* state and the outputs each would end with.
StepResults(g) ==
    LET pc == greenlets[g].pc
        all == CASE pc = "attempt" ->
                       {AfterConnect(g, a, b) : a \in 1..MaxServers, b \in BOOLEAN}
                 [] pc = "start" -> {AfterDisconnectStart(g)}
                 [] pc \in KillPcs -> {AfterKill(g)}
                 [] pc = "get" /\ conn.inq # <<>> -> {AfterRecv(g)}
                 [] pc = "get" /\ conn.inq = <<>> -> {AfterTimeout(g)}
                 [] pc = "woken" -> {AfterWait(g)}
                 [] pc = "sleep" -> {AfterSleep(g)}
                 [] OTHER -> {}
    IN  {r \in all : r.ok}

\* Number of occurrences of x in the sequence seq
Count(seq, x) == Cardinality({i \in 1..Len(seq) : seq[i] = x})

IsPrefix(a, b) == Len(a) <= Len(b) /\ SubSeq(b, 1, Len(a)) = a

\* The session is in the state _init_attributes leaves
IsReset(r) ==
    /\ r.connected = FALSE
    /\ r.key = <<>> /\ r.hmac_secret = <<>>
    /\ r.steam_id = <<>> /\ r.session_id = <<>>
    /\ r.recv_loop = 0 /\ r.heartbeat_loop = 0

\* The greenlets gevent has made runnable get to run.
Fairness ==
    /\ WF_vars(\E g \in Slots : ConnectAttempt(g))
    /\ WF_vars(\E g \in Slots : DisconnectStart(g))
    /\ WF_vars(\E g \in Slots : KillReturns(g))
    /\ WF_vars(\E g \in Slots : RecvMessage(g))
    /\ WF_vars(\E g \in Slots : WaitReturns(g))

SpecFair == Spec /\ Fairness

\* _handle_encrypt_request has sent its response and waits in wait_event for
\* the encrypt-result, which the transport has queued as the next frame
ResultArrived(g) ==
    /\ connected
    /\ key = <<>>
    /\ greenlets[g].pc = "wait_result"
    /\ conn.inq = <<EncryptResult(EResult_OK)>>

\* C1: once a valid encrypt-request was answered on a connected session with
\* no key and the encrypt-result OK has arrived, the waiting handler is woken
\* and the session key becomes the key derived from the request's challenge
\* (or the session is torn down by a disconnect meanwhile).
C1_HandshakeSucceeds ==
    (\E g \in Slots : ResultArrived(g)) ~>
        (key \in {generate_session_key(<<7>>), generate_session_key(<<>>)}
         \/ ~connected)

\* A disconnect() call ends in the step with result r
EndsDisconnect(r) == r.out.disc # "none"

\* C2: a disconnect() invoked on a connected session ends, whoever called it,
\* with the session reset as a whole: connected false, key, hmac_secret,
\* steam_id and session_id absent, both task handles absent and their tasks
\* not running, and 'disconnected' emitted exactly once.
C2_DisconnectResetsEverything ==
    \A g \in Slots : \A r \in StepResults(g) :
        (EndsDisconnect(r) /\ r.out.dconn) =>
            /\ IsReset(r)
            /\ ~Alive(r, recv_loop)
            /\ ~Alive(r, heartbeat_loop)
            /\ Count(r.out.emits, "disconnected") = 1

\* The greenlet g is about to be handed the next frame of the transport
Ready(g) == greenlets[g].pc = "get" /\ conn.inq # <<>>

\* The step with result r dispatched m as its first envelope
Handles(r, m) == r.out.disp # <<>> /\ r.out.disp[1] = m

HeartbeatsAlive ==
    {g \in Slots : greenlets[g].kind = "heartbeat" /\ greenlets[g].pc # "dead"}

\* C3: a logon-response OK sets steam_id and session_id from its header and
\* starts a heartbeat task with the interval of its body, after killing the
\* heartbeat task there is; at most one heartbeat task is alive in every
\* reachable state.
C3_LogonStartsOneHeartbeat ==
    /\ Cardinality(HeartbeatsAlive) <= 1
    /\ \A g \in Slots : Ready(g) =>
          LET r == AfterRecv(g)
          IN  (r.ok /\ Handles(r, LogOnResponse(EResult_OK))) =>
                /\ r.steam_id = <<76>>
                /\ r.session_id = <<9>>
                /\ IF Alive(Begin, heartbeat_loop)
                   THEN /\ r.G[g].pc = "logon_kill_hb"
                        /\ r.G[g].target = heartbeat_loop
                        /\ r.G[g].interval = 30
                        /\ r.out.spawned = <<>>
                   ELSE /\ r.out.spawned = <<"heartbeat">>
                        /\ Alive(r, r.heartbeat_loop)
                        /\ r.G[r.heartbeat_loop].kind = "heartbeat"
                        /\ r.G[r.heartbeat_loop].interval = 30
    /\ \A g \in Slots : greenlets[g].pc = "logon_kill_hb" =>
          LET r == AfterKill(g)
          IN  r.ok =>
                /\ ~Alive(r, greenlets[g].target)
                /\ r.out.spawned = <<"heartbeat">>
                /\ r.G[r.heartbeat_loop].interval = greenlets[g].interval

ReconnectCodes == {EResult_TryAnotherCM, EResult_ServiceUnavailable}

BadRequests ==
    {EncryptRequest(2, EUniverse_Public, <<7>>),
     EncryptRequest(1, EUniverse_Beta, <<7>>)}

\* C5: the step that handles an encrypt-request whose protocolVersion is not
\* 1 or whose universe is not Public sends nothing, leaves the key as it is,
\* and starts one greenlet that runs disconnect() and no connect(); a
\* greenlet that runs disconnect() without reconnect starts no connect() and,
\* when its disconnect() ends, the session is not connected.
C5_HandshakeRejection ==
    /\ \A g \in Slots : Ready(g) =>
          LET r == AfterRecv(g)
          IN  \A m \in BadRequests :
                (r.ok /\ Handles(r, m)) =>
                    /\ r.out.sent = <<>>
                    /\ r.key = key
                    /\ r.hmac_secret = hmac_secret
                    /\ r.out.spawned = <<"disconnect">>
                    /\ r.G[r.new].kind = "disconnect"
                    /\ r.G[r.new].pc = "start"
                    /\ r.G[r.new].reconnect = FALSE
    /\ \A g \in Slots :
          (greenlets[g].kind = "disconnect" /\ ~greenlets[g].reconnect) =>
              \A r \in StepResults(g) :
                  /\ r.out.spawned = <<>>
                  /\ r.out.sent = <<>>
                  /\ EndsDisconnect(r) => ~r.connected
                  /\ r.G[g].pc \in {"dead", "disc_kill_hb", "disc_kill_recv"}

C5_Witness ==
    \E g \in Slots :
        /\ Ready(g)
        /\ connected /\ key = <<>>
        /\ AfterRecv(g).ok
        /\ Handles(AfterRecv(g), EncryptRequest(1, EUniverse_Beta, <<7>>))
        /\ AfterRecv(g).out.spawned = <<"disconnect">>

\* C6: a step takes the key from absent to present only when it is
\* _handle_encrypt_request coming back from wait_event with an encrypt-result
\* whose eresult is OK, and the key is then the one it derived; coming back
\* with any other eresult it leaves key and hmac_secret as they are, emits no
\* 'channel_secured' and starts a greenlet that runs disconnect().
C6_KeyCommitOnlyOnSuccess ==
    \A g \in Slots : \A r \in StepResults(g) :
        /\ (key = <<>> /\ r.key # <<>>) =>
              /\ greenlets[g].pc = "woken"
              /\ greenlets[g].res = EResult_OK
              /\ r.key = greenlets[g].lkey
              /\ r.out.emits = <<"channel_secured">>
        /\ (greenlets[g].pc = "woken" /\ greenlets[g].res # EResult_OK) =>
              /\ r.key = key
              /\ r.hmac_secret = hmac_secret
              /\ r.out.emits = <<>>
              /\ r.out.spawned = <<"disconnect">>
              /\ r.G[r.new].reconnect = FALSE

C6_Witness ==
    \E g \in Slots :
        /\ greenlets[g].pc = "woken"
        /\ greenlets[g].res = EResult_OK
        /\ key = <<>>
        /\ AfterWait(g).ok
        /\ AfterWait(g).key = generate_session_key(<<7>>)

\* disconnect() ends in the step with result r without an exception, with
\* its caller not killed, and with the session not connected
EndsSafely(r) ==
    /\ r.out.disc = "returned"
    /\ ~r.out.raised
    /\ ~r.connected

\* C7: every disconnect() call, in whatever state it is made, ends without an
\* exception and leaves the session Disconnected.
C7_DisconnectSafeFromAnyState ==
    \A g \in Slots : \A r \in StepResults(g) :
        EndsDisconnect(r) => EndsSafely(r)

\* C8: after an attempt of connect(), if the transport's connected event is
\* set, connect() is over, connected is true, 'connected' was emitted once
\* and one receive task was started, which is the session's; if it is not
\* set, connect() is still in its loop and has done none of these.
C8_ConnectRetryAndCompletion ==
    \A g \in Slots : greenlets[g].pc = "attempt" =>
        \A server_addr \in 1..MaxServers, success \in BOOLEAN :
            LET r == AfterConnect(g, server_addr, success)
            IN  r.ok =>
                  /\ r.out.addr = server_addr
                  /\ IF r.conn.up
                     THEN /\ r.G[g].pc = "dead"
                          /\ r.connected
                          /\ r.out.emits = <<"connected">>
                          /\ r.out.spawned = <<"recv">>
                          /\ r.G[r.recv_loop].kind = "recv"
                          /\ r.G[r.recv_loop].pc = "get"
                     ELSE /\ r.G[g] = greenlets[g]
                          /\ r.connected = connected
                          /\ r.recv_loop = recv_loop
                          /\ r.out.emits = <<>>
                          /\ r.out.spawned = <<>>

C8_Witness ==
    \E g \in Slots :
        /\ greenlets[g].pc = "attempt"
        /\ ~conn.up
        /\ ~AfterConnect(g, 1, FALSE).connected
        /\ AfterConnect(g, 2, TRUE).ok
        /\ AfterConnect(g, 2, TRUE).out.spawned = <<"recv">>

\* The sub-envelopes a buffer of a Multi holds, each behind its length
RECURSIVE Unpack(_)
Unpack(data) ==
    IF Len(data) < 4 THEN <<>>
    ELSE <<Slice(data, 4, 4 + UnpackU32(data))>>
         \o Unpack(SliceFrom(data, 4 + UnpackU32(data)))

\* The sub-envelopes a receive greenlet still has to dispatch
RECURSIVE Pending(_)
Pending(stk) ==
    IF stk = <<>> THEN <<>> ELSE Unpack(Head(stk)) \o Pending(Tail(stk))

\* The Multi frames none of whose sub-envelopes makes its handler call
\* disconnect()
QuietCases ==
    {c \in MultiCases :
        \A i \in 1..Len(c.subs) :
            \A e \in ReconnectCodes : c.subs[i] # LogOnResponse(e)}

\* C9 as stated: a receive task that is handed a Multi with N sub-envelopes
\* dispatches exactly those N, in packed order: when its step ends, what it
\* has dispatched and what it still holds to dispatch are the N
\* sub-envelopes, and no disconnect() of another greenlet ends a receive task
\* that holds some while _handle_logon waits for the old heartbeat task.
C9_ExactlyAllSubEnvelopes ==
    /\ \A g \in Slots : Ready(g) =>
          LET r == AfterRecv(g)
          IN  \A c \in QuietCases :
                (r.ok /\ Handles(r, c.frame)) =>
                    /\ Alive(r, g)
                    /\ Tail(r.out.disp) \o Pending(r.G[g].stk) = c.subs
    /\ \A g \in Slots : greenlets[g].kind = "disconnect" =>
          \A r \in StepResults(g) : \A t \in Slots :
              (greenlets[t].pc = "logon_kill_hb" /\ ~Alive(r, t)) =>
                  Pending(greenlets[t].stk) = <<>>

\* C9: a receive task dispatches the frame it takes from the head of the
\* transport's queue first; of a Multi with N sub-envelopes it dispatches a
\* prefix of the N in packed order, and all N when it gets back to reading
\* the transport with the session still connected; it reads the transport
\* only when it holds no sub-envelope to dispatch.
C9_DispatchOrdering ==
    /\ \A g \in Slots : greenlets[g].pc = "get" => greenlets[g].stk = <<>>
    /\ \A g \in Slots : Ready(g) =>
          LET r == AfterRecv(g)
          IN  /\ r.ok => r.conn.inq = Tail(conn.inq)
              /\ (r.ok /\ key = <<>> /\ r.out.disp # <<>>) =>
                     r.out.disp[1] = Head(conn.inq)
              /\ \A c \in MultiCases :
                    (r.ok /\ Handles(r, c.frame)) =>
                        /\ IsPrefix(Tail(r.out.disp), c.subs)
                        /\ (Alive(r, g) /\ r.connected) =>
                              Tail(r.out.disp) \o Pending(r.G[g].stk) = c.subs
                        /\ (r.G[g].pc = "get" /\ r.connected) =>
                              Tail(r.out.disp) = c.subs
    /\ \A g \in Slots :
          (greenlets[g].kind = "recv" /\ greenlets[g].pc \in KillPcs \cup {"woken"}) =>
              \A r \in StepResults(g) :
                  /\ IsPrefix(r.out.disp, Pending(greenlets[g].stk))
                  /\ (Alive(r, g) /\ r.connected) =>
                        r.out.disp \o Pending(r.G[g].stk)
                            = Pending(greenlets[g].stk)

C9_Witness ==
    \E g \in Slots :
        /\ Ready(g)
        /\ AfterRecv(g).ok
        /\ AfterRecv(g).out.disp =
              <<MultiZip(<<LoggedOff, LogOnResponse(EResult_InvalidPassword)>>, 0),
                LoggedOff, LogOnResponse(EResult_InvalidPassword)>>
        /\ AfterRecv(g).G[g].pc = "get"

\* A Multi whose declared uncompressed size is not the extracted length
IsMismatch(m) ==
    /\ Len(m) >= 5
    /\ clear_proto_bit(m) = EMsg_Multi
    /\ Multi_size_unzipped(m) # 0
    /\ IsZip(Multi_message_body(m))
    /\ Len(ZipRead(Multi_message_body(m))) # Multi_size_unzipped(m)

\* C10: a step that dispatches a Multi whose declared size is wrong starts a
\* disconnect and dispatches nothing after it, and it does not leave the
\* receive task reading a connected session with frames queued.
C10_SizeMismatchStopsDispatch ==
    \A g \in Slots : \A r \in StepResults(g) :
        \A i \in 1..Len(r.out.disp) :
            IsMismatch(r.out.disp[i]) =>
                /\ i = Len(r.out.disp)
                /\ Count(r.out.spawned, "disconnect") = 1
                /\ r.conn.inq # <<>> => ~(r.connected /\ r.G[g].pc = "get")

\* The type of the envelope m is known and its body does not deserialize
FailsToDeserialize(m) ==
    /\ Len(m) >= 4
    /\ clear_proto_bit(m) \in EMsg
    /\ Len(m) < MinLen(clear_proto_bit(m))

\* A greenlet that is to run or is running disconnect() is there
DisconnectPending(r) ==
    \E i \in Slots : r.G[i].pc \in {"start", "disc_kill_hb", "disc_kill_recv"}

\* C11: the step of a receive task that is handed an envelope of a known
\* type whose body does not deserialize ends without an exception, dispatches
\* nothing, starts one disconnect, and does not leave the session connected
\* with no receive task running and no disconnect on its way.
C11_DeserializationFailure ==
    \A g \in Slots :
        (Ready(g) /\ connected /\ key = <<>>
         /\ FailsToDeserialize(Head(conn.inq))) =>
            LET r == AfterRecv(g)
            IN  r.ok =>
                  /\ ~r.out.raised
                  /\ r.out.disp = <<>>
                  /\ Count(r.out.spawned, "disconnect") = 1
                  /\ (r.connected /\ ~Alive(r, r.recv_loop)) =>
                         DisconnectPending(r)

\* _handle_encrypt_request has sent its response on the greenlet g and has
\* not come back from wait_event, or has come back and not gone on yet
InHandshakeWait(g) == greenlets[g].pc \in {"wait_result", "woken"}

\* C12: no handler of an encrypt-request is still in its wait for the
\* encrypt-result once a disconnect has torn the session down: while one
\* waits, the session is connected and has its receive task.
C12_WaitReleasedByTeardown ==
    \A g \in Slots : InHandshakeWait(g) => (connected /\ recv_loop # 0)

\* The session is logged on in the state r
LoggedOn(r) == r.connected /\ r.steam_id # <<>> /\ r.session_id # <<>>

\* C13: a heartbeat task is alive only while the session is connected and
\* holds steam_id and session_id; a disconnect() that returns leaves no
\* heartbeat task alive; a heartbeat message is sent only while logged on.
C13_HeartbeatOnlyWhileLoggedOn ==
    /\ HeartbeatsAlive # {} => LoggedOn(Begin)
    /\ \A g \in Slots : \A r \in StepResults(g) :
          /\ r.out.disc = "returned" =>
                \A h \in Slots : r.G[h].kind = "heartbeat" => ~Alive(r, h)
          /\ (\E i \in 1..Len(r.out.sent) :
                 r.out.sent[i].emsg = EMsg_ClientHeartBeat) => LoggedOn(Begin)

\* C14: in every state a greenlet can observe, hmac_secret is present only
\* with the key and is then its first 16 bytes, it is present exactly when
\* the key was derived from a challenge that is not empty, and steam_id is
\* present exactly when session_id is.
C14_PairedCommits ==
    /\ hmac_secret # <<>> =>
          (key # <<>> /\ hmac_secret = Slice(key, 0, HmacLen))
    /\ key # <<>> =>
          (hmac_secret = <<>> <=> key = generate_session_key(<<>>))
    /\ steam_id = <<>> <=> session_id = <<>>

\* The session holds key and hmac_secret and the frame m does not pass the
\* integrity check of symmetric_decrypt_HMAC
IntegrityFails(m) ==
    key # <<>> /\ hmac_secret # <<>> /\ ~HMAC_verifies(m, key, hmac_secret)

\* What a step leaves of the session attributes as they were
SameAttributes(r) ==
    /\ r.connected = connected
    /\ r.key = key /\ r.hmac_secret = hmac_secret
    /\ r.steam_id = steam_id /\ r.session_id = session_id
    /\ r.recv_loop = recv_loop /\ r.heartbeat_loop = heartbeat_loop

\* C15: when hmac_secret is held and a received frame fails the integrity
\* check, the receive greenlet dispatches nothing, sends nothing and does not
\* touch the session: it spawns one disconnect and ends without an exception,
\* leaving the frames behind the failed one in the transport's queue.
C15_IntegrityFailureAborts ==
    \A g \in Slots :
        (Ready(g) /\ IntegrityFails(Head(conn.inq))) =>
            LET r == AfterRecv(g)
            IN  r.ok => /\ r.out.disp = <<>>
                        /\ r.out.sent = <<>> /\ r.out.emits = <<>>
                        /\ r.out.spawned = <<"disconnect">>
                        /\ ~r.out.raised
                        /\ r.G[g].pc = "dead"
                        /\ r.conn.inq = Tail(conn.inq)
                        /\ SameAttributes(r)
                        /\ \A i \in Slots \ {g} :
                              greenlets[i].pc # "dead" => r.G[i] = greenlets[i]

\* A receive greenlet is about to read a frame whose tag does not verify,
\* with another frame behind it, on a connected session.
C15_Witness ==
    \E g \in Slots :
        /\ Ready(g) /\ IntegrityFails(Head(conn.inq))
        /\ AfterRecv(g).ok
        /\ connected /\ recv_loop = g
        /\ Len(conn.inq) = 2

\* gevent runs the runnable greenlets, and get_message returns or times out
\* within its second.
SpecPoll == SpecFair /\ WF_vars(\E g \in Slots : RecvTimeout(g))

\* The transport of a connected session has dropped
Dropped == connected /\ ~conn.up /\ Alive(Begin, recv_loop)

\* What the receive greenlet does when get_message times out
TimeoutStep ==
    \A g \in Slots :
        (greenlets[g].pc = "get" /\ conn.inq = <<>>) =>
            LET r == AfterTimeout(g)
            IN  r.ok => /\ ~r.out.raised /\ r.out.disp = <<>>
                        /\ r.out.sent = <<>> /\ r.out.emits = <<>>
                        /\ SameAttributes(r)
                        /\ IF conn.up
                           THEN r.out.spawned = <<>> /\ r.G = greenlets
                           ELSE r.out.spawned = <<"disconnect">>
                                /\ r.G[g].pc = "dead"

\* C16: when get_message times out, the receive greenlet spawns exactly one
\* disconnect and ends if the transport is not connected, and otherwise goes
\* on with no session attribute changed; and a session whose transport has
\* dropped is eventually disconnected.
C16_ReceivePollTimeout ==
    /\ []TimeoutStep
    /\ Dropped ~> ~connected

\* The serialization of a message of this type with the identity the session
\* holds and nothing else
PlainWithIdentity(emsg, proto) ==
    Serialize(emsg, proto, steam_id, session_id)

\* data is what the session's key and hmac_secret make of plain
TreatedAsHeld(data, plain) ==
    IF key = <<>> THEN data = plain
    ELSE IF hmac_secret = <<>>
         THEN data = symmetric_encrypt(plain, key) /\ data # plain
         ELSE /\ data = symmetric_encrypt_HMAC(plain, key, hmac_secret)
              /\ HMAC_verifies(data, key, hmac_secret)
              /\ data # symmetric_encrypt(plain, key)

\* send_message of a new message object, in the current state
SendTreatment ==
    \A emsg \in {EMsg_ClientHeartBeat, EMsg_ChannelEncryptResponse} :
        \A proto \in BOOLEAN :
            LET r == send_message(Begin, Message(emsg, proto))
            IN  /\ Len(r.out.sent) = 1
                /\ TreatedAsHeld(r.out.sent[1].data, PlainWithIdentity(emsg, proto))

\* The heartbeats go out as the session's state at that moment has it
HeartbeatTreatment ==
    \A g \in Slots :
        greenlets[g].pc = "sleep" =>
            LET r == AfterSleep(g)
            IN  /\ Len(r.out.sent) = 1
                /\ TreatedAsHeld(r.out.sent[1].data,
                                 PlainWithIdentity(EMsg_ClientHeartBeat, TRUE))

\* The encrypt-response of a handshake goes out as it is serialized
ResponseUnencrypted ==
    \A g \in Slots : \A r \in StepResults(g) :
        \A i \in 1..Len(r.out.sent) :
            r.out.sent[i].emsg = EMsg_ChannelEncryptResponse =>
                IsPrefix(Header(EMsg_ChannelEncryptResponse, FALSE),
                         r.out.sent[i].data)

\* C17: what send_message hands to the transport is the serialization when
\* no key is held, its symmetric encryption when a key and no hmac_secret is
\* held, its authenticated encryption when both are held, with steamID and
\* sessionID set exactly when the session holds them; the encrypt-response of
\* a handshake goes out unencrypted, and after a disconnect a send is
\* unencrypted and carries no identity.
C17_OutgoingMessageTreatment ==
    /\ SendTreatment
    /\ HeartbeatTreatment
    /\ ResponseUnencrypted

\* No connect() and no disconnect() is under way in r
NoneUnderWay(r) ==
    \A i \in Slots : r.G[i].pc # "dead" => r.G[i].kind \notin {"connect", "disconnect"}

\* The session is connected and its receive handle is the one receive
\* greenlet there is
Reconnected(r) ==
    /\ r.connected
    /\ Alive(r, r.recv_loop) /\ r.G[r.recv_loop].kind = "recv"
    /\ \A i \in Slots :
          (r.G[i].kind = "recv" /\ r.G[i].pc # "dead") => i = r.recv_loop

\* C18: when the application has done no more than connect() and
\* disconnect(reconnect=True) and the server has sent nothing, the step that
\* ends the last of a disconnect(reconnect=True) and the connect() it spawned
\* leaves the session connected, with the receive handle on the receive
\* greenlet that connect() started and no other receive greenlet running.
C18_ReconnectNotClobbered ==
    \A g \in Slots :
        (nevents <= 2 /\ nframes = 0) =>
            \A r \in StepResults(g) :
                /\ (greenlets[g].kind = "disconnect" /\ greenlets[g].reconnect
                      /\ r.out.disc # "none" /\ NoneUnderWay(r))
                        => Reconnected(r)
                /\ (greenlets[g].kind = "connect" /\ r.G[g].pc = "dead"
                      /\ NoneUnderWay(r))
                        => (Reconnected(r) /\ r.recv_loop = r.new)

\* The challenges of the encrypt-requests the server sends
Challenges == {<<>>, <<7>>}

\* C19: a session that holds a key is connected, and the key is the one
\* derived from the challenge of an encrypt-request; a session that holds a
\* steam_id or a session_id is connected.
C19_SecretsBelongToLiveConnection ==
    /\ key # <<>> =>
          (connected /\ \E c \in Challenges : key = generate_session_key(c))
    /\ steam_id # <<>> => connected
    /\ session_id # <<>> => connected

\* The envelope is a logon-response whose handler calls disconnect(True)
AsksReconnect(m) ==
    /\ Len(m) >= MinLen(EMsg_ClientLogOnResponse)
    /\ clear_proto_bit(m) = EMsg_ClientLogOnResponse
    /\ Logon_eresult(m) \in ReconnectCodes

\* C20: a step that starts on a session that is not connected dispatches no
\* envelope, whether it reads a frame or goes on with the sub-envelopes of a
\* Multi; a step in which disconnect() resets the session dispatches nothing
\* after the reset.
C20_NoDispatchWhenDisconnected ==
    \A g \in Slots : \A r \in StepResults(g) :
        /\ ~connected => r.out.disp = <<>>
        /\ greenlets[g].pc = "disc_kill_recv" => r.out.disp = <<>>
        /\ (r.out.disc = "returned" /\ r.out.disp # <<>>) =>
              AsksReconnect(r.out.disp[Len(r.out.disp)])

\* A receive greenlet that was suspended inside a Multi, with sub-envelopes
\* left to dispatch, resumes on a session that is no longer connected.
C20_Witness ==
    \E g \in Slots :
        /\ ~connected
        /\ greenlets[g].kind = "recv"
        /\ greenlets[g].pc \in KillPcs
        /\ Pending(greenlets[g].stk) # <<>>
        /\ StepResults(g) # {}

====
